---- MODULE Spec2Model ----
(***************************************************************************)
(* Model of invertedIndex.py: PostingsList (a linked chain of nodes with   *)
(* skip pointers), its merge intersection, and InvertedIndex.query.        *)
(*                                                                         *)
(* A node is addressed by its position in the list `nodes` that            *)
(* create_postings_list builds (1-based here, so the source's position i   *)
(* is i + 1); next is the following position, next_skip the stored target. *)
(* An absent node (Python None) is position None.                          *)
(***************************************************************************)
EXTENDS Integers, Sequences, FiniteSets, TLC

\* ---------------------------------------------------------------- bounds
MaxLen == 3          \* longest id collection given to self (direct calls)
MaxOtherLen == 2     \* longest id collection given to other (direct calls)
MaxInterval == 2     \* largest skip interval of a direct construction
MaxRawLen == 2       \* longest raw id collection of an index entry
MaxWords == 3        \* most words in a generated query text

DocIds == {1, 2, 8}  \* document ids of direct constructions
QueryIds == {1, 8}   \* document ids of generated index entries

None == 0
Abort == -1

RECURSIVE SeqsUpTo(_, _)
SeqsUpTo(S, n) ==
    IF n = 0 THEN {<<>>}
    ELSE LET shorter == SeqsUpTo(S, n - 1)
         IN shorter \cup {Append(s, x) : s \in {t \in shorter : Len(t) = n - 1}, x \in S}

Range(s) == {s[i] : i \in 1..Len(s)}

IsAscending(s) == \A i \in 1..(Len(s) - 1) : s[i] <= s[i + 1]
IsStrictlyAscending(s) == \A i \in 1..(Len(s) - 1) : s[i] < s[i + 1]

\* ------------------------------------------------------- sorted(docs)
RECURSIVE InsertSorted(_, _)
InsertSorted(s, x) ==
    IF s = <<>> THEN <<x>>
    ELSE IF x < Head(s) THEN <<x>> \o s
    ELSE <<Head(s)>> \o InsertSorted(Tail(s), x)

RECURSIVE sorted(_)
sorted(docs) ==
    IF docs = <<>> THEN <<>>
    ELSE InsertSorted(sorted(SubSeq(docs, 1, Len(docs) - 1)), docs[Len(docs)])

\* ------------------------------------------- create_postings_list
\* Second loop of create_postings_list: for i in range(0, len(nodes), interval).
\* i is the source's 0-based position; skip[i + 1] is nodes[i].next_skip.
SkipLinkTestInclusive(i, interval, n) == i + interval <= n

SkipLinkTest(i, interval, n) == i + interval < n

RECURSIVE SkipLoop(_, _, _, _)
SkipLoop(i, interval, n, skip) ==
    IF i >= n THEN skip
    ELSE SkipLoop(i + interval, interval, n,
                  IF SkipLinkTest(i, interval, n)
                  THEN [skip EXCEPT ![i + 1] = i + interval + 1]
                  ELSE skip)

\* The chain is built from the argument docs, in the order given.
create_postings_list(docs, interval) ==
    [chain |-> docs,
     skip  |-> SkipLoop(0, interval, Len(docs), [i \in 1..Len(docs) |-> None])]

\* PostingsList.__init__: docs is sorted, the chain is built from the
\* unsorted argument.
PostingsList(docs, interval) ==
    LET built == create_postings_list(docs, interval)
    IN [docs     |-> sorted(docs),
        chain    |-> built.chain,
        skip     |-> built.skip,
        interval |-> interval]

root(L) == IF L.chain = <<>> THEN None ELSE 1

\* Attribute reads of a node; on an absent node Python raises.
DocOf(L, p) == IF p = None \/ p = Abort THEN Abort ELSE L.chain[p]
NextOf(L, p) ==
    IF p = None \/ p = Abort THEN Abort
    ELSE IF p < Len(L.chain) THEN p + 1 ELSE None
NextSkipOf(L, p) == IF p = None \/ p = Abort THEN Abort ELSE L.skip[p]

\* ------------------------------------------------ list(set(result))
\* CPython builds the set by inserting the elements in list order into an
\* open-addressing table (8 slots at first, hash(i) = i for these ids) and
\* list() reads the table slots in order.
Empty == -1

RECURSIVE Probe(_, _, _, _, _)
Probe(table, mask, i, perturb, key) ==
    LET probes == IF i + 9 <= mask THEN 9 ELSE 0
        hits == {j \in i..(i + probes) : table[j] = Empty \/ table[j] = key}
    IN IF hits # {}
       THEN CHOOSE j \in hits : \A h \in hits : j <= h
       ELSE Probe(table, mask, (i * 5 + 1 + (perturb \div 32)) % (mask + 1),
                  perturb \div 32, key)

RECURSIVE NewSize(_, _)
NewSize(size, minused) == IF size <= minused THEN NewSize(2 * size, minused) ELSE size

RECURSIVE InsertClean(_, _, _, _)
InsertClean(old, j, table, mask) ==
    IF j >= Len(old) THEN table
    ELSE IF old[j + 1] = Empty THEN InsertClean(old, j + 1, table, mask)
    ELSE LET key == old[j + 1]
             slot == Probe(table, mask, key % (mask + 1), key, key)
         IN InsertClean(old, j + 1, [table EXCEPT ![slot] = key], mask)

SetTableResize(so, minused) ==
    LET size == NewSize(8, minused)
        old == [j \in 1..(so.mask + 1) |-> so.table[j - 1]]
    IN [table |-> InsertClean(old, 0, [j \in 0..(size - 1) |-> Empty], size - 1),
        mask  |-> size - 1,
        fill  |-> so.fill]

SetAddKey(so, key) ==
    LET slot == Probe(so.table, so.mask, key % (so.mask + 1), key, key)
    IN IF so.table[slot] = key THEN so
       ELSE LET added == [table |-> [so.table EXCEPT ![slot] = key],
                          mask  |-> so.mask,
                          fill  |-> so.fill + 1]
            IN IF added.fill * 5 < added.mask * 3 THEN added
               ELSE SetTableResize(added, added.fill * 4)

RECURSIVE SetUpdate(_, _)
SetUpdate(so, s) ==
    IF s = <<>> THEN so ELSE SetUpdate(SetAddKey(so, Head(s)), Tail(s))

RECURSIVE TableToList(_, _)
TableToList(so, j) ==
    IF j > so.mask THEN <<>>
    ELSE IF so.table[j] = Empty THEN TableToList(so, j + 1)
    ELSE <<so.table[j]>> \o TableToList(so, j + 1)

ListOfSet(result) ==
    TableToList(SetUpdate([table |-> [j \in 0..7 |-> Empty], mask |-> 7, fill |-> 0],
                          result), 0)

\* ------------------------------------- get_intersecting_documents
SkipConditionUnguarded(L, p, d) == DocOf(L, NextSkipOf(L, p)) <= d

\* `p.next_skip and p.next_skip.doc <= d`
SkipCondition(L, p, d) ==
    /\ NextSkipOf(L, p) # None
    /\ DocOf(L, NextSkipOf(L, p)) <= d

\* the `while` part: follow skip links while the condition holds
RECURSIVE SkipRun(_, _, _)
SkipRun(L, p, d) ==
    IF NextSkipOf(L, p) = Abort THEN Abort
    ELSE IF SkipCondition(L, p, d) THEN SkipRun(L, NextSkipOf(L, p), d)
    ELSE p

\* `while ...: p = p.next_skip  else: p = p.next` : the loop has no break, so
\* the else suite runs every time the loop ends.
SkipThenStep(L, p, d) == NextOf(L, SkipRun(L, p, d))

\* variants of the loop body: the else branch without skips; a record in the
\* `<` branch
MergeStepPlainElse(A, B, s) ==
    IF DocOf(A, s.p1) = DocOf(B, s.p2)
    THEN [p1 |-> NextOf(A, s.p1), p2 |-> NextOf(B, s.p2),
          result |-> Append(s.result, DocOf(A, s.p1))]
    ELSE IF DocOf(A, s.p1) < DocOf(B, s.p2)
    THEN [s EXCEPT !.p1 = SkipThenStep(A, s.p1, DocOf(B, s.p2))]
    ELSE [s EXCEPT !.p2 = NextOf(B, s.p2)]

MergeStepRecordLess(A, B, s) ==
    IF DocOf(A, s.p1) = DocOf(B, s.p2)
    THEN [p1 |-> NextOf(A, s.p1), p2 |-> NextOf(B, s.p2),
          result |-> Append(s.result, DocOf(A, s.p1))]
    ELSE IF DocOf(A, s.p1) < DocOf(B, s.p2)
    THEN [s EXCEPT !.p1 = SkipThenStep(A, s.p1, DocOf(B, s.p2)),
                   !.result = Append(s.result, DocOf(A, s.p1))]
    ELSE [s EXCEPT !.p2 = SkipThenStep(B, s.p2, DocOf(A, s.p1))]

\* one iteration of the merge loop; s = [p1, p2, result]
MergeStep(A, B, s) ==
    IF DocOf(A, s.p1) = DocOf(B, s.p2)
    THEN [p1 |-> NextOf(A, s.p1), p2 |-> NextOf(B, s.p2),
          result |-> Append(s.result, DocOf(A, s.p1))]
    ELSE IF DocOf(A, s.p1) < DocOf(B, s.p2)
    THEN [s EXCEPT !.p1 = SkipThenStep(A, s.p1, DocOf(B, s.p2))]
    ELSE [s EXCEPT !.p2 = SkipThenStep(B, s.p2, DocOf(A, s.p1))]

LoopTest(s) == s.p1 # None /\ s.p2 # None

RECURSIVE MergeLoop(_, _, _)
MergeLoop(A, B, s) ==
    IF s.p1 = Abort \/ s.p2 = Abort THEN s
    ELSE IF LoopTest(s) THEN MergeLoop(A, B, MergeStep(A, B, s))
    ELSE s

get_intersecting_documents(A, B) ==
    ListOfSet(MergeLoop(A, B, [p1 |-> root(A), p2 |-> root(B), result |-> <<>>]).result)

\* PostingsList.form_intersection_with: the interval comes from len(self.docs)
IntervalFor(n) ==
    IF n >= 9 THEN CHOOSE r \in 0..n : r * r <= n /\ (r + 1) * (r + 1) > n ELSE 3

form_intersection_with(A, B) ==
    PostingsList(get_intersecting_documents(A, B), IntervalFor(Len(A.docs)))

\* ------------------------------------------------------- re.split
\* The pattern (?:\s+|\s*[.!?\\-]+\s+|\s+[.!?\\-]+\s*) on a text given as a
\* sequence of characters.  At a whitespace character the first alternative
\* takes the whitespace run; at a punctuation character the second takes the
\* punctuation run and the whitespace run after it, when there is one.
IsSpace(c) == c = " "
IsPunct(c) == c \in {".", "!", "?", "\\", "-"}

RECURSIVE RunEnd(_, _, _)
\* first position >= i whose character is not of the class (Len + 1 if none)
RunEnd(text, i, space) ==
    IF i > Len(text) THEN i
    ELSE IF (space /\ IsSpace(text[i])) \/ (~space /\ IsPunct(text[i]))
    THEN RunEnd(text, i + 1, space)
    ELSE i

\* end (exclusive) of the separator matched at i, or i when none matches
MatchEnd(text, i) ==
    IF IsSpace(text[i]) THEN RunEnd(text, i, TRUE)
    ELSE IF IsPunct(text[i])
    THEN LET j == RunEnd(text, i, FALSE)
         IN IF j <= Len(text) /\ IsSpace(text[j]) THEN RunEnd(text, j, TRUE) ELSE i
    ELSE i

RECURSIVE SplitFrom(_, _, _)
SplitFrom(text, i, token) ==
    IF i > Len(text) THEN <<token>>
    ELSE IF MatchEnd(text, i) > i
    THEN <<token>> \o SplitFrom(text, MatchEnd(text, i), <<>>)
    ELSE SplitFrom(text, i + 1, Append(token, text[i]))

Split(text) == SplitFrom(text, 1, <<>>)

\* ------------------------------------------- InvertedIndex.query
\* `token not in self.index or not token`
TokenSkipped(idx, token) == token \notin DOMAIN idx \/ token = <<>>

TokenPostings(idx, token) == PostingsList(idx[token], IntervalFor(Len(idx[token])))

\* the for loop of query over tokens[i..]; inter is <<>> for None, <<L>> otherwise
RECURSIVE QueryLoop(_, _, _, _)
QueryLoop(idx, tokens, i, inter) ==
    IF i > Len(tokens) THEN inter
    ELSE IF TokenSkipped(idx, tokens[i]) THEN QueryLoop(idx, tokens, i + 1, inter)
    ELSE IF inter # <<>>
    THEN QueryLoop(idx, tokens, i + 1,
                   <<form_intersection_with(inter[1], TokenPostings(idx, tokens[i]))>>)
    ELSE QueryLoop(idx, tokens, i + 1, <<TokenPostings(idx, tokens[i])>>)

QueryResult(inter) == IF inter # <<>> THEN inter[1].docs ELSE <<>>

query(idx, tokens) == QueryResult(QueryLoop(idx, tokens, 1, <<>>))

\* ----------------------------------------------------------- inputs
Keys == {<<"a">>, <<"b">>}                \* tokens a generated index may hold
Words == Keys \cup {<<>>}                 \* words of a generated text

RECURSIVE JoinWords(_)
JoinWords(ws) ==
    IF ws = <<>> THEN <<>>
    ELSE IF Len(ws) = 1 THEN ws[1]
    ELSE ws[1] \o <<" ">> \o JoinWords(Tail(ws))

GeneratedTexts == {JoinWords(ws) : ws \in SeqsUpTo(Words, MaxWords)}
GeneratedIndexes ==
    UNION {[D -> SeqsUpTo(QueryIds, MaxRawLen)] : D \in SUBSET Keys}

cat == <<"c", "a", "t">>
dog == <<"d", "o", "g">>
IndexAB == [k \in {<<"a">>, <<"b">>} |->
              IF k = <<"a">> THEN <<1, 2, 3, 4, 5, 6, 7, 8, 9>> ELSE <<2, 4, 6, 8, 10>>]
IndexCat == [k \in {cat} |-> <<1, 2, 3>>]
IndexX == [k \in {<<"x">>} |-> <<5>>]
Index3 == [k \in {<<"a">>, <<"b">>, <<"c">>} |->
             IF k = <<"a">> THEN <<1, 2, 8>>
             ELSE IF k = <<"b">> THEN <<8, 2>> ELSE <<2, 8, 8>>]
IndexSkip == [k \in {<<"a">>, <<"b">>} |->
                IF k = <<"a">> THEN <<0, 1, 2, 3>> ELSE <<3>>]
TextAB == <<"a", " ", "b">>
TextABC == <<"a", " ", "b", " ", "c">>
TextCatDog == cat \o <<" ">> \o dog
TextXY == <<"x", " ", "y">>

Scenarios ==
    {<<IndexAB, TextAB>>, <<IndexAB, <<"a", " ", "-", " ", "b", ".", " ">>>>,
     <<IndexCat, TextCatDog>>, <<IndexCat, dog>>,
     <<IndexX, <<"x">>>>, <<IndexX, TextXY>>, <<IndexX, <<>>>>,
     <<Index3, TextABC>>, <<Index3, <<"c", " ", "b", " ", "a">>>>,
     <<IndexSkip, TextAB>>, <<IndexSkip, <<"b", "!", " ", "a", "-", "b", " ", "a">>>>}

QueryInputs == (GeneratedIndexes \X GeneratedTexts) \cup Scenarios

\* ------------------------------------------------------------ state
VARIABLES caller,        \* "direct": get_intersecting_documents called on two
                         \* constructed lists; "query": InvertedIndex.query
          index, text,   \* InvertedIndex.index and the argument of query
          ti,            \* position of the for loop of query in the tokens
          intersection,  \* query's local: <<>> for None, <<L>> otherwise
          self, other,   \* the two PostingsLists of the running merge
          p1, p2, result,\* locals of get_intersecting_documents
          iters,         \* iterations of the merge loop made by the running call
          ret,           \* value returned by get_intersecting_documents
          qret,          \* value returned by query
          pc

vars == <<caller, index, text, ti, intersection, self, other, p1, p2, result,
          iters, ret, qret, pc>>

tokens == Split(text)
EmptyList == PostingsList(<<>>, 3)

\* get_intersecting_documents is called on two constructed lists: the state
\* on entry to the loop (lines 84-85)
DirectCall(a, b, ka, kb) ==
    LET A == PostingsList(a, ka)
        B == PostingsList(b, kb)
    IN [caller |-> "direct", index |-> <<>>, text |-> <<>>, ti |-> 1,
        intersection |-> <<>>, self |-> A, other |-> B,
        p1 |-> root(A), p2 |-> root(B), result |-> <<>>, iters |-> 0,
        ret |-> <<>>, qret |-> <<>>, pc |-> "loop"]

\* InvertedIndex(idx).query(txt) is called: the state before the for loop
\* (lines 141-142)
QueryCall(idx, txt) ==
    [caller |-> "query", index |-> idx, text |-> txt, ti |-> 1,
     intersection |-> <<>>, self |-> EmptyList, other |-> EmptyList,
     p1 |-> None, p2 |-> None, result |-> <<>>, iters |-> 0,
     ret |-> <<>>, qret |-> <<>>, pc |-> "tokens"]

DirectCalls ==
    {DirectCall(a, b, ka, kb) : a \in SeqsUpTo(DocIds, MaxLen),
                                b \in SeqsUpTo(DocIds, MaxOtherLen),
                                ka \in 1..MaxInterval, kb \in 1..MaxInterval}
QueryCalls == {QueryCall(in[1], in[2]) : in \in QueryInputs}

Init ==
    \E c \in DirectCalls \cup QueryCalls :
        /\ caller = c.caller /\ index = c.index /\ text = c.text /\ ti = c.ti
        /\ intersection = c.intersection /\ self = c.self /\ other = c.other
        /\ p1 = c.p1 /\ p2 = c.p2 /\ result = c.result /\ iters = c.iters
        /\ ret = c.ret /\ qret = c.qret /\ pc = c.pc

\* ---------------------------------------------------------- actions
queryVars == <<caller, index, text>>
mergeVars == <<self, other, p1, p2, result, iters, ret>>

\* variant: a skipped token empties the running intersection
QuerySkipTokenForcesEmpty ==
    /\ pc = "tokens" /\ ti <= Len(tokens)
    /\ TokenSkipped(index, tokens[ti])
    /\ ti' = ti + 1
    /\ intersection' = <<EmptyList>>
    /\ UNCHANGED <<queryVars, mergeVars, qret, pc>>

\* query, lines 143-145: the token is skipped
QuerySkipToken ==
    /\ pc = "tokens" /\ ti <= Len(tokens)
    /\ TokenSkipped(index, tokens[ti])
    /\ ti' = ti + 1
    /\ UNCHANGED <<queryVars, mergeVars, intersection, qret, pc>>

\* query, lines 147-155 with intersection None
QueryFirstToken ==
    /\ pc = "tokens" /\ ti <= Len(tokens)
    /\ ~TokenSkipped(index, tokens[ti])
    /\ intersection = <<>>
    /\ intersection' = <<TokenPostings(index, tokens[ti])>>
    /\ ti' = ti + 1
    /\ UNCHANGED <<queryVars, mergeVars, qret, pc>>

\* query, lines 147-153: form_intersection_with is entered and calls
\* get_intersecting_documents (lines 84-85)
QueryNextToken ==
    /\ pc = "tokens" /\ ti <= Len(tokens)
    /\ ~TokenSkipped(index, tokens[ti])
    /\ intersection # <<>>
    /\ self' = intersection[1]
    /\ other' = TokenPostings(index, tokens[ti])
    /\ p1' = root(self') /\ p2' = root(other') /\ result' = <<>> /\ iters' = 0
    /\ pc' = "loop"
    /\ UNCHANGED <<queryVars, ti, intersection, ret, qret>>

\* one iteration of the merge loop, lines 87-100
Step ==
    LET s == MergeStep(self, other, [p1 |-> p1, p2 |-> p2, result |-> result])
    IN /\ p1' = s.p1 /\ p2' = s.p2 /\ result' = s.result
       /\ iters' = iters + 1
       /\ pc' = IF s.p1 = Abort \/ s.p2 = Abort THEN "abort" ELSE "loop"
       /\ UNCHANGED <<queryVars, ti, intersection, self, other, ret, qret>>

InLoop == pc = "loop" /\ LoopTest([p1 |-> p1, p2 |-> p2, result |-> result])

StepEqual == InLoop /\ DocOf(self, p1) = DocOf(other, p2) /\ Step
StepLess == InLoop /\ DocOf(self, p1) < DocOf(other, p2) /\ Step
StepGreater == InLoop /\ DocOf(self, p1) > DocOf(other, p2) /\ Step

\* line 102
Return ==
    /\ pc = "loop" /\ ~LoopTest([p1 |-> p1, p2 |-> p2, result |-> result])
    /\ ret' = ListOfSet(result)
    /\ pc' = "returned"
    /\ UNCHANGED <<queryVars, ti, intersection, self, other, p1, p2, result, iters, qret>>

\* lines 67-70, and the assignment of line 153
FormIntersection ==
    /\ pc = "returned" /\ caller = "query"
    /\ intersection' = <<PostingsList(ret, IntervalFor(Len(self.docs)))>>
    /\ ti' = ti + 1
    /\ pc' = "tokens"
    /\ UNCHANGED <<queryVars, mergeVars, qret>>

\* line 157
QueryReturn ==
    /\ pc = "tokens" /\ ti > Len(tokens)
    /\ qret' = QueryResult(intersection)
    /\ pc' = "done"
    /\ UNCHANGED <<queryVars, mergeVars, ti, intersection>>

Next ==
    \/ QuerySkipToken
    \/ QueryFirstToken
    \/ QueryNextToken
    \/ StepEqual
    \/ StepLess
    \/ StepGreater
    \/ Return
    \/ FormIntersection
    \/ QueryReturn

Spec == Init /\ [][Next]_vars

\* ------------------------------------------------------- properties
Lists == {self, other} \cup Range(intersection)

RECURSIVE AscendingSeq(_)
\* the ascending sequence of the elements of a finite set of integers
AscendingSeq(S) ==
    IF S = {} THEN <<>>
    ELSE LET m == CHOOSE x \in S : \A y \in S : x <= y
         IN <<m>> \o AscendingSeq(S \ {m})

NoSkips(L) == [L EXCEPT !.skip = [i \in 1..Len(L.chain) |-> None]]
Present(t) == ~TokenSkipped(index, t)
Pos(L, p) == IF p = None THEN Len(L.chain) + 1 ELSE p
SkipOrStep(L, p, d) == IF SkipCondition(L, p, d) THEN SkipRun(L, p, d) ELSE NextOf(L, p)

\* C1: for ascending id collections and any intervals the ids returned by
\* get_intersecting_documents are exactly the ids in both docs, which are
\* also the ids a merge that follows no skip link returns.
C1_MergeIsIntersection ==
    (pc = "returned" /\ IsAscending(self.chain) /\ IsAscending(other.chain)) =>
        /\ Range(ret) = Range(self.docs) \cap Range(other.docs)
        /\ Range(ret) = Range(get_intersecting_documents(NoSkips(self), NoSkips(other)))

\* C2: a query of three present tokens returns the ascending deduplicated
\* intersection of their raw id collections, the same under both groupings of
\* the pairwise intersections; the index {a: 1..9, b: 2,4,6,8,10} gives
\* 2,4,6,8 for "a b".
C2_QueryIsIntersection ==
    /\ (pc = "done" /\ Len(tokens) = 3 /\ \A i \in 1..3 : Present(tokens[i])) =>
          LET A == TokenPostings(index, tokens[1])
              B == TokenPostings(index, tokens[2])
              C == TokenPostings(index, tokens[3])
          IN /\ qret = AscendingSeq(Range(index[tokens[1]]) \cap Range(index[tokens[2]])
                                      \cap Range(index[tokens[3]]))
             /\ qret = form_intersection_with(form_intersection_with(A, B), C).docs
             /\ qret = form_intersection_with(A, form_intersection_with(B, C)).docs
    /\ (pc = "done" /\ index = IndexAB /\ text = TextAB) => qret = <<2, 4, 6, 8>>

\* C3: the sequence returned by get_intersecting_documents is strictly
\* ascending.
C3_ResultAscending == pc = "returned" => IsStrictlyAscending(ret)

\* C4: every PostingsList has docs ascending, a chain that visits the values
\* of docs in the same order, and no root exactly when docs is empty.
C4_ChainFollowsDocs ==
    \A L \in Lists :
        /\ IsAscending(L.docs)
        /\ L.chain = L.docs
        /\ (root(L) = None <=> L.docs = <<>>)

\* C5: query skips the tokens that are absent from the index or empty: it
\* returns what the query of the remaining tokens returns, the empty sequence
\* when no token remains, <<1,2,3>> for "cat dog" on {cat: 1,2,3} and <<5>>
\* for "x y" on {x: 5}.
C5_SkippedTokens ==
    pc = "done" =>
        /\ qret = query(index, SelectSeq(tokens, Present))
        /\ (SelectSeq(tokens, Present) = <<>> => qret = <<>>)
        /\ (text = <<>> => qret = <<>>)
        /\ (index = IndexCat /\ text = TextCatDog => qret = <<1, 2, 3>>)
        /\ (index = IndexX /\ text = TextXY => qret = <<5>>)

C5_Witness ==
    /\ pc = "done" /\ qret # <<>>
    /\ \E i \in 1..Len(tokens) : ~Present(tokens[i])
    /\ \E i \in 1..Len(tokens) : tokens[i] = <<>>
    /\ other.chain # <<>>

SkipPlacement(L) ==
    LET n == Len(L.chain)
        k == L.interval
    IN \A i \in 0..(n - 1) :
          /\ L.skip[i + 1] # None <=> (i % k = 0 /\ i + k < n)
          /\ L.skip[i + 1] # None => L.skip[i + 1] = i + k + 1

\* C6: in a list of n nodes with interval k the node at position i has a skip
\* link iff i % k = 0 and i + k < n, and the link leads to position i + k.
C6_SkipPlacement == \A L \in Lists : SkipPlacement(L)

C6_Witness ==
    /\ caller = "direct"
    /\ Len(self.chain) = 3 /\ self.interval = 1 /\ self.skip = <<2, 3, None>>
    /\ Len(other.chain) = 2 /\ other.interval = 2 /\ other.skip = <<None, None>>

\* C7: A.get_intersecting_documents(B) equals B.get_intersecting_documents(A).
C7_Commutative == pc = "returned" => ret = get_intersecting_documents(other, self)

C7_Witness ==
    /\ pc = "returned" /\ ret # <<>>
    /\ self.chain # other.chain
    /\ \E i \in 1..Len(self.chain) : self.skip[i] # None
    /\ ~IsAscending(self.chain)

\* C8: when the docs of the two cursors differ, the cursor at the smaller doc
\* ends the iteration at the last skip target reached when a skip link was
\* followed, and one node further only when none was; the other cursor stays.
C8_SkipOrStep ==
    [][(InLoop /\ DocOf(self, p1) # DocOf(other, p2)) =>
          IF DocOf(self, p1) < DocOf(other, p2)
          THEN p1' = SkipOrStep(self, p1, DocOf(other, p2)) /\ p2' = p2
          ELSE p2' = SkipOrStep(other, p2, DocOf(self, p1)) /\ p1' = p1]_vars

\* C9: the merge loop never reads an absent node, every iteration moves a
\* cursor strictly forward and none backward, so a call makes at most as many
\* iterations as the two chains have nodes and then returns; with an empty
\* list on either side it returns the empty sequence without an iteration.
C9_Terminates ==
    /\ [](pc # "abort")
    /\ [](iters <= Len(self.chain) + Len(other.chain))
    /\ [][InLoop => /\ Pos(self, p1') >= Pos(self, p1)
                    /\ Pos(other, p2') >= Pos(other, p2)
                    /\ Pos(self, p1') > Pos(self, p1) \/ Pos(other, p2') > Pos(other, p2)]_vars
    /\ [][(pc = "loop" /\ (self.chain = <<>> \/ other.chain = <<>>)) =>
             (pc' = "returned" /\ iters' = 0 /\ ret' = <<>>)]_vars

C9_Witness ==
    /\ pc = "returned" /\ caller = "direct"
    /\ Len(self.chain) = 3 /\ Len(other.chain) = 2
    /\ p1 = None /\ p2 = None /\ iters = 3
    /\ \E i \in 1..Len(self.chain) : self.skip[i] # None

\* C10: every id in result is the doc of a node of self and of a node of
\* other, so is every id returned, and every id query returns is in the raw
\* collection of each queried token that is in the index.
C10_Sound ==
    /\ Range(result) \subseteq Range(self.chain) \cap Range(other.chain)
    /\ pc = "returned" => Range(ret) \subseteq Range(self.chain) \cap Range(other.chain)
    /\ pc = "done" =>
          \A i \in 1..Len(tokens) :
              Present(tokens[i]) => Range(qret) \subseteq Range(index[tokens[i]])

C10_Witness ==
    /\ pc = "done" /\ qret # <<>>
    /\ self.chain # other.chain /\ ~IsAscending(other.chain)
    /\ Cardinality({i \in 1..Len(tokens) : Present(tokens[i])}) = 3

====
